---- MODULE Spec2Model ----
(***************************************************************************)
(* Dispatch simulation of the PV + battery digital twin.                   *)
(*                                                                         *)
(* run_controller (src/src/controller.py) is run for the three scenarios   *)
(* over the same input frame and the same configuration, as main.py does.  *)
(* The three runs share no state; the model advances them together, one    *)
(* input row at a time, so that the rows of the three outputs can be       *)
(* compared.  Floating point numbers are modelled by exact rationals       *)
(* <<numerator, denominator>> in lowest terms with a positive denominator. *)
(*                                                                         *)
(* The controller calls greedy_heuristic_step with the keywords price_low  *)
(* and price_high.  The optimizer in src/src/optimizer.py declares neither *)
(* parameter and its body reads no threshold.  The call is modelled as     *)
(* binding the six parameters the optimizer declares; the two thresholds   *)
(* are kept with the call so that what was passed can be compared with     *)
(* what was decided.                                                       *)
(*                                                                         *)
(* A fourth call of run_controller, made before the three, is given a      *)
(* scenario name that is none of the three; the variable other follows it. *)
(***************************************************************************)
EXTENDS Integers, Sequences, FiniteSets, TLC

VARIABLES conf, pc, t, soc, out, call, post, other

vars == <<conf, pc, t, soc, out, call, post, other>>

\* Longest input frame explored (number of rows of df).
MaxSteps == 3

----------------------------------------------------------------------------
\* Exact arithmetic standing for Python floats.

RECURSIVE GCD(_, _)
GCD(a, b) == IF b = 0 THEN a ELSE GCD(b, a % b)

Abs(n) == IF n < 0 THEN -n ELSE n

Norm(n, d) == LET g == GCD(Abs(n), d) IN <<n \div g, d \div g>>

Q(n, d) == Norm(n, d)

I(n) == <<n, 1>>

\* x[1]/x[2] and y[1]/y[2] brought to the least common denominator
OverLcm(x, y) == LET g == GCD(x[2], y[2])
                 IN  <<x[1] * (y[2] \div g), y[1] * (x[2] \div g), (x[2] \div g) * y[2]>>

AddOver(l) == Norm(l[1] + l[2], l[3])

SubOver(l) == Norm(l[1] - l[2], l[3])

LtOver(l) == l[1] < l[2]

LeOver(l) == l[1] <= l[2]

RAdd(x, y) == AddOver(OverLcm(x, y))

RSub(x, y) == SubOver(OverLcm(x, y))

RMul(x, y) == LET a == Norm(x[1], y[2])
                  b == Norm(y[1], x[2])
              IN  <<a[1] * b[1], a[2] * b[2]>>

RDiv(x, y) == IF y[1] > 0 THEN RMul(x, <<y[2], y[1]>>)
                          ELSE RMul(x, <<-y[2], -y[1]>>)

RNeg(x) == <<-x[1], x[2]>>

RLt(x, y) == LtOver(OverLcm(x, y))

RLe(x, y) == LeOver(OverLcm(x, y))

RMin(x, y) == IF RLe(x, y) THEN x ELSE y

RMax(x, y) == IF RLe(y, x) THEN x ELSE y

Zero == I(0)

One == I(1)

----------------------------------------------------------------------------
\* Configuration and input rows.

Scenarios == {"baseline", "batt", "full"}

\* Scenario names that are none of the three (the comparison is exact).
UnknownScenarios == {"Full"}

NoEconomics == [k \in {} |-> Zero]

\* dict.get(key, default)
Get(d, key, default) == IF key \in DOMAIN d THEN d[key] ELSE default

\* A household system: 10 kWh battery, 15 minute steps, window 10%..90%.
ConfDefault ==
    [dt_minutes |-> I(15), e_nom_kwh |-> I(10),
     soc_min |-> Q(1, 10), soc_max |-> Q(9, 10),
     eta_ch |-> Q(4, 5), eta_dis |-> Q(4, 5),
     p_ch_max |-> I(5), p_dis_max |-> I(5),
     annual_deg_rate |-> Zero, t_ref_c |-> I(25), temp_coeff_per_c |-> Q(1, 200),
     economics |-> NoEconomics]

\* A battery kept high: physical window 70%..100%, midpoint 85%.
ConfHighWindow ==
    [ConfDefault EXCEPT !.soc_min = Q(7, 10), !.soc_max = One,
                        !.eta_ch = One, !.eta_dis = One]

\* A battery kept low: physical window 0%..30%, midpoint 15%.
ConfLowWindow ==
    [ConfDefault EXCEPT !.soc_min = Zero, !.soc_max = Q(3, 10)]

\* A small battery (2 kWh): the energy limits bind before the power limits.
ConfSmall ==
    [ConfDefault EXCEPT !.e_nom_kwh = I(2)]

\* A steep temperature coefficient: the corrected PV power goes negative at 45 C.
ConfSteep ==
    [ConfDefault EXCEPT !.temp_coeff_per_c = Q(1, 10),
                        !.economics = ("batt_deg_marginal_gbp_per_kwh" :> Q(1, 16))]

\* Accelerated ageing: the derating factor falls by 1/40 per step.
ConfAged ==
    [ConfDefault EXCEPT !.annual_deg_rate = I(876),
                        !.eta_ch = One, !.eta_dis = One]

Confs == {ConfDefault, ConfHighWindow, ConfLowWindow, ConfSmall, ConfSteep, ConfAged}

Row(pv, load, temp, pimp, has_hour, hour) ==
    [pv_kw_raw |-> pv, load_kw |-> load, cell_temp_c |-> temp,
     price_import_gbp_per_kwh |-> pimp, price_export_gbp_per_kwh |-> Q(1, 20),
     has_hour |-> has_hour, hour |-> hour]

Rows ==
    { Row(I(6), I(1), I(25), Q(25, 100), TRUE, 12),    \* midday surplus
      Row(I(2), I(1), I(35), Q(25, 100), TRUE, 12),    \* small surplus, hot
      Row(I(0), I(4), I(25), Q(35, 100), TRUE, 18),    \* evening peak deficit
      Row(I(0), I(1), I(25), Q(15, 100), TRUE, 3),     \* cheap night deficit
      Row(I(0), I(2), I(25), Q(29, 100), TRUE, 12),    \* deficit just under 0.30
      Row(I(1), I(4), I(45), Q(35, 100), TRUE, 18),    \* hot, expensive deficit
      Row(I(0), I(2), I(25), Q(35, 100), TRUE, 3),     \* expensive morning deficit
      Row(I(0), I(8), I(25), Q(40, 100), FALSE, 0) }   \* large deficit, plain index

----------------------------------------------------------------------------
\* src/src/degradation_models.py

hours_per_year == I(8760)

pv_degraded_power_kw(pv_kw_raw, t_hours_from_start, annual_rate) ==
    LET factor == RMax(Zero, RSub(One, RMul(annual_rate,
                                            RDiv(t_hours_from_start, hours_per_year))))
    IN  RMul(pv_kw_raw, factor)

pv_temp_correction_kw(pv_kw, temp_c, t_ref_c, beta_per_c) ==
    RMul(pv_kw, RSub(One, RMul(beta_per_c, RSub(temp_c, t_ref_c))))

pv_degradation_cost_step(pv_kw_raw, pv_kw_temp, price_ref_gbp_per_kwh, dt_h) ==
    LET lost_kw == RMax(Zero, RSub(pv_kw_raw, pv_kw_temp))
    IN  RMul(RMul(lost_kw, price_ref_gbp_per_kwh), dt_h)

----------------------------------------------------------------------------
\* src/src/optimizer.py

RECURSIVE Insert(_, _)
Insert(x, s) == IF s = <<>> THEN <<x>>
                ELSE IF RLe(x, Head(s)) THEN <<x>> \o s
                ELSE <<Head(s)>> \o Insert(x, Tail(s))

RECURSIVE np_sort(_)
np_sort(s) == IF s = <<>> THEN <<>> ELSE Insert(Head(s), np_sort(Tail(s)))

\* np.quantile(xs, 0.5): linear interpolation at position (n - 1)/2 of the
\* sorted values.
quantile_half(xs) ==
    LET srt == np_sort(xs)
        n   == Len(srt)
        lo  == ((n - 1) \div 2) + 1
        hi  == (n \div 2) + 1
    IN  RAdd(srt[lo], RMul(Q(1, 2), RSub(srt[hi], srt[lo])))

\* The fixed reference set the import price is ranked in.
price_reference(price_imp) == <<price_imp, Q(30, 100), Q(40, 100), Q(20, 100)>>

\* Variant: a price equal to the median counts as high.
price_is_high_or_equal(price_imp) ==
    RLe(quantile_half(price_reference(price_imp)), price_imp)

\* "threshold on high price": the import price against the median of the set
price_is_high(price_imp) == RLt(quantile_half(price_reference(price_imp)), price_imp)

\* if net >= 0: charge within limits, export the rest (lines 10-14)
surplus_out(net, p_ch) ==
    [pch |-> p_ch, pdis |-> Zero, pimp |-> Zero, pexp |-> RMax(Zero, RSub(net, p_ch))]

\* Variant: the charge is limited by the charge power only, not by the headroom.
surplus_branch_no_headroom(net, soc0, params) ==
    surplus_out(net, RMin(params.p_ch_max, net))

surplus_branch(net, soc0, params) ==
    LET headroom_kwh  == RMul(RSub(params.soc_max, soc0), params.e_nom_kwh)
        max_charge_kw == RMin(params.p_ch_max, RDiv(headroom_kwh, params.dt_h))
    IN  surplus_out(net, RMin(max_charge_kw, net))

\* Variant: the import covers the whole deficit, the discharge comes on top.
deficit_out_full_import(deficit, p_dis) ==
    [pch |-> Zero, pdis |-> p_dis, pimp |-> RMax(Zero, deficit), pexp |-> Zero]

\* deficit -= p_dis; p_imp = max(0.0, deficit) (lines 23-24)
deficit_out(deficit, p_dis) ==
    [pch |-> Zero, pdis |-> p_dis, pimp |-> RMax(Zero, RSub(deficit, p_dis)),
     pexp |-> Zero]

\* else: discharge if the price is high, import the rest (lines 16-24)
deficit_branch(deficit, price_imp, soc0, params) ==
    LET available_kwh == RMax(Zero, RMul(RSub(soc0, params.soc_min), params.e_nom_kwh))
        max_dis_kw    == RMin(params.p_dis_max, RDiv(available_kwh, params.dt_h))
    IN  deficit_out(deficit, IF price_is_high(price_imp)
                             THEN RMin(max_dis_kw, deficit) ELSE Zero)

branch_on(net, price_imp, soc0, params) ==
    IF RLe(Zero, net) THEN surplus_branch(net, soc0, params)
                      ELSE deficit_branch(RNeg(net), price_imp, soc0, params)

\* Variant: in a deficit step the PV power is still offered to charging.
with_pv_charge(ret, pv_kw, soc0, params) ==
    IF ret.pimp = Zero /\ ret.pdis = Zero THEN ret
    ELSE [ret EXCEPT !.pch = RMax(Zero, surplus_branch(pv_kw, soc0, params).pch)]

greedy_charge_in_deficit(pv_kw, load_kw, price_imp, price_exp, soc0, params) ==
    with_pv_charge(branch_on(RSub(pv_kw, load_kw), price_imp, soc0, params),
                   pv_kw, soc0, params)

greedy_heuristic_step(pv_kw, load_kw, price_imp, price_exp, soc0, params) ==
    branch_on(RSub(pv_kw, load_kw), price_imp, soc0, params)

----------------------------------------------------------------------------
\* system_model (SystemParams, soc_next), as the controller uses it.

SystemParams(c) ==
    [dt_h |-> RDiv(c.dt_minutes, I(60)), e_nom_kwh |-> c.e_nom_kwh,
     eta_ch |-> c.eta_ch, eta_dis |-> c.eta_dis,
     p_ch_max |-> c.p_ch_max, p_dis_max |-> c.p_dis_max,
     soc_min |-> c.soc_min, soc_max |-> c.soc_max]

soc_next(soc0, pch, pdis, dt_h, eta_ch, eta_dis, e_nom_kwh) ==
    RAdd(soc0, RDiv(RMul(RSub(RMul(pch, eta_ch), RDiv(pdis, eta_dis)), dt_h),
                    e_nom_kwh))

----------------------------------------------------------------------------
\* src/src/controller.py

_thresholds(c, scenario) ==
    LET e == c.economics
    IN  IF scenario = "baseline"
        THEN <<Get(e, "baseline_price_low", Q(19, 100)),
               Get(e, "baseline_price_high", Q(33, 100))>>
        ELSE IF scenario = "batt"
        THEN <<Get(e, "batt_price_low", Q(21, 100)),
               Get(e, "batt_price_high", Q(32, 100))>>
        ELSE <<Get(e, "full_price_low", Q(22, 100)),
               Get(e, "full_price_high", Q(34, 100))>>

_lambda_batt(c, scenario) ==
    LET e == c.economics
    IN  IF scenario = "baseline" THEN Zero
        ELSE IF scenario = "batt" THEN Get(e, "lambda_batt", Q(8, 10))
        ELSE Get(e, "lambda_batt_full", Q(12, 10))

batt_deg_pen(c) == Get(c.economics, "batt_deg_marginal_gbp_per_kwh", Q(2, 100))

\* soc = (soc_min + soc_max)/2 of the configuration, for every scenario
initial_soc(c) == RDiv(RAdd(c.soc_min, c.soc_max), I(2))

\* Variant: a lookup that falls back to the last entry, as _thresholds does.
soc_win_has_default(scenario) == TRUE

\* The dict of windows has an entry for the scenario; the subscript raises
\* KeyError when it has none.
soc_win_has(scenario) == scenario \in Scenarios

soc_win(c, scenario) ==
    LET params == SystemParams(c)
    IN  IF scenario = "baseline" THEN <<params.soc_min, params.soc_max>>
        ELSE IF scenario = "batt"
        THEN <<RMax(params.soc_min, Q(15, 100)), RMin(params.soc_max, Q(85, 100))>>
        ELSE <<RMax(params.soc_min, Q(20, 100)), RMin(params.soc_max, Q(80, 100))>>

temp_discharge_limit_c == I(35)

allow_export == FALSE

_ParamView(c, scenario) ==
    LET params == SystemParams(c)
        win    == soc_win(c, scenario)
    IN  [dt_h |-> params.dt_h, e_nom_kwh |-> params.e_nom_kwh,
         eta_ch |-> params.eta_ch, eta_dis |-> params.eta_dis,
         p_ch_max |-> params.p_ch_max, p_dis_max |-> params.p_dis_max,
         soc_min |-> win[1], soc_max |-> win[2]]

\* The thresholds handed to the optimizer: the scenario's pair, saturated by
\* the baseline time-of-use nudges and by the hot-cell rule of "full".
thresholds_use(c, scenario, row) ==
    LET th    == _thresholds(c, scenario)
        tou   == scenario = "baseline" /\ row.has_hour
        low   == IF tou /\ 0 <= row.hour /\ row.hour <= 6 THEN I(1000000) ELSE th[1]
        high0 == IF tou /\ 16 <= row.hour /\ row.hour <= 22 THEN I(-1000000) ELSE th[2]
        high  == IF scenario = "full" /\ RLe(temp_discharge_limit_c, row.cell_temp_c)
                 THEN I(1000000000) ELSE high0
    IN  <<low, high>>

\* Variant: the export is left as the optimizer returned it.
export_uncapped(g, pv_eff, load_kw) == g

\* Export is capped to the PV-only surplus; the excess is taken off discharge.
export_cap(g, pv_eff, load_kw) ==
    LET surplus == RMax(Zero, RSub(pv_eff, load_kw))
    IN  IF ~allow_export /\ RLt(surplus, g.pexp)
        THEN LET over == RSub(g.pexp, surplus)
             IN  [g EXCEPT !.pexp = RSub(g.pexp, over),
                           !.pdis = RMax(Zero, RSub(g.pdis, over))]
        ELSE g

\* Variant: the row's soc is written after the SoC is advanced.
row_soc_after(soc_start, soc_end) == soc_end

\* The row's soc is written before the SoC is advanced (line 92 before line 99).
row_soc(soc_start, soc_end) == soc_start

\* if soc < soc_win[0]: soc = soc_win[0] elif soc > soc_win[1]: soc = soc_win[1]
clamp_to_win(soc1, win) ==
    IF RLt(soc1, win[1]) THEN win[1] ELSE IF RLt(win[2], soc1) THEN win[2] ELSE soc1

pv_eff_at(c, row, tt) ==
    pv_temp_correction_kw(
        pv_degraded_power_kw(row.pv_kw_raw, RMul(I(tt), SystemParams(c).dt_h),
                             c.annual_deg_rate),
        row.cell_temp_c, c.t_ref_c, c.temp_coeff_per_c)

price_imp_eff_at(c, scenario, row) ==
    RAdd(row.price_import_gbp_per_kwh, RMul(_lambda_batt(c, scenario), batt_deg_pen(c)))

\* The row written to out and the SoC carried to the next row (lines 92-101).
loop_result(c, row, soc0, pv_eff, th, price_imp_eff, g, d, soc2) ==
    [rec  |-> [pv_kw_raw |-> row.pv_kw_raw, load_kw |-> row.load_kw,
               cell_temp_c |-> row.cell_temp_c,
               price_import_gbp_per_kwh |-> row.price_import_gbp_per_kwh,
               price_export_gbp_per_kwh |-> row.price_export_gbp_per_kwh,
               has_hour |-> row.has_hour, hour |-> row.hour,
               soc |-> row_soc(soc0, soc2), pch |-> d.pch, pdis |-> d.pdis,
               pimp |-> d.pimp, pexp |-> d.pexp, pv_kw_eff |-> pv_eff,
               deg_cost_pv |-> pv_degradation_cost_step(row.pv_kw_raw, pv_eff,
                                   row.price_import_gbp_per_kwh,
                                   SystemParams(c).dt_h)],
     call |-> [pv_kw |-> pv_eff, load_kw |-> row.load_kw,
               price_imp |-> price_imp_eff, soc |-> soc0,
               price_low |-> th[1], price_high |-> th[2], ret |-> g],
     soc  |-> soc2]

\* soc = soc_next(...), then the clamp to the scenario's window (lines 99-101)
integrate(c, scenario, row, soc0, pv_eff, th, price_imp_eff, g, d) ==
    loop_result(c, row, soc0, pv_eff, th, price_imp_eff, g, d,
        clamp_to_win(soc_next(soc0, d.pch, d.pdis, SystemParams(c).dt_h, c.eta_ch,
                              c.eta_dis, c.e_nom_kwh),
                     soc_win(c, scenario)))

\* the export cap on what the optimizer returned (lines 86-90)
postprocess(c, scenario, row, soc0, pv_eff, th, price_imp_eff, g) ==
    integrate(c, scenario, row, soc0, pv_eff, th, price_imp_eff, g,
              export_cap(g, pv_eff, row.load_kw))

\* the call of the optimizer (lines 81-84)
dispatch(c, scenario, row, soc0, pv_eff, price_imp_eff) ==
    postprocess(c, scenario, row, soc0, pv_eff, thresholds_use(c, scenario, row),
                price_imp_eff,
                greedy_heuristic_step(pv_eff, row.load_kw, price_imp_eff,
                                      row.price_export_gbp_per_kwh, soc0,
                                      _ParamView(c, scenario)))

\* One pass of the loop body for one scenario: row tt of the frame, entered
\* with SoC soc0 (lines 56-101).
LoopBody(c, scenario, row, tt, soc0) ==
    dispatch(c, scenario, row, soc0, pv_eff_at(c, row, tt),
             price_imp_eff_at(c, scenario, row))

\* Series.clip(lower=..., upper=...)
clip(x, lower, upper) == RMin(RMax(x, lower), upper)

clip_lower(x, lower) == RMax(x, lower)

\* The clips applied to the columns on return.
return_clip(c, scenario, r) ==
    [r EXCEPT !.pch = clip_lower(r.pch, Zero), !.pdis = clip_lower(r.pdis, Zero),
              !.pimp = clip_lower(r.pimp, Zero), !.pexp = clip_lower(r.pexp, Zero),
              !.soc = clip(r.soc, soc_win(c, scenario)[1], One)]

----------------------------------------------------------------------------
\* src/src/evaluation.py

RECURSIVE sum_pdis(_)
sum_pdis(df) == IF df = <<>> THEN Zero
                ELSE RAdd(clip_lower(Head(df).pdis, Zero), sum_pdis(Tail(df)))

\* equivalent_full_cycles, with dt_h and e_nom_kwh as summarize_kpis sets them
kpi_lifecycle(df, dt_h, e_nom_kwh) ==
    RDiv(RMul(sum_pdis(df), dt_h), RMax(e_nom_kwh, One))

----------------------------------------------------------------------------
\* The runs.

NoCall == [pv_kw |-> Zero, load_kw |-> Zero, price_imp |-> Zero, soc |-> Zero,
           price_low |-> Zero, price_high |-> Zero,
           ret |-> [pch |-> Zero, pdis |-> Zero, pimp |-> Zero, pexp |-> Zero]]

Init ==
    /\ conf \in Confs
    /\ pc = "loop"
    /\ t = 0
    /\ soc = [s \in Scenarios |-> initial_soc(conf)]
    /\ out = [s \in Scenarios |-> <<>>]
    /\ call = [s \in Scenarios |-> NoCall]
    /\ post = [s \in Scenarios |-> <<>>]
    /\ \E scenario \in UnknownScenarios :
         other = [scenario |-> scenario, pc |-> "call", soc |-> Zero, out |-> <<>>]

\* run_controller up to the loop, called with a name that is none of the three:
\* the initial SoC, the thresholds and the nudge are computed, then the window
\* is looked up.
CallOther ==
    /\ other.pc = "call"
    /\ other' = [other EXCEPT
                   !.soc = initial_soc(conf),
                   !.pc  = IF soc_win_has(other.scenario) THEN "loop" ELSE "KeyError"]
    /\ UNCHANGED <<conf, pc, t, soc, out, call, post>>

\* The loop body in the fourth call, when that call has reached its loop.
StepOther(o, row, tt, res) ==
    IF o.pc = "loop"
    THEN [o EXCEPT !.soc = res.soc, !.out = Append(o.out, res.rec)]
    ELSE o

\* The return of the fourth call, when that call has reached its loop.
ReturnOther(o) ==
    IF o.pc = "loop"
    THEN [o EXCEPT !.pc = "done",
                   !.out = [i \in 1..Len(o.out) |->
                              return_clip(conf, o.scenario, o.out[i])]]
    ELSE o

\* The state after the loop body has run in each of the three runs.
Advance(res) ==
    /\ soc'  = [s \in Scenarios |-> res[s].soc]
    /\ out'  = [s \in Scenarios |-> Append(out[s], res[s].rec)]
    /\ call' = [s \in Scenarios |-> res[s].call]
    /\ post' = [s \in Scenarios |-> Append(post[s], res[s].soc)]

\* The loop body on the next row of the frame, in each of the three runs.
Step ==
    /\ pc = "loop"
    /\ other.pc # "call"
    /\ t < MaxSteps
    /\ \E row \in Rows :
         /\ Advance([s \in Scenarios |-> LoopBody(conf, s, row, t, soc[s])])
         /\ other' = StepOther(other, row, t,
                               LoopBody(conf, other.scenario, row, t, other.soc))
    /\ t' = t + 1
    /\ UNCHANGED <<conf, pc>>

\* The frame has no more rows: the columns are clipped and the frame returned.
Return ==
    /\ pc = "loop"
    /\ other.pc # "call"
    /\ pc' = "done"
    /\ out' = [s \in Scenarios |->
                 [i \in 1..Len(out[s]) |-> return_clip(conf, s, out[s][i])]]
    /\ other' = ReturnOther(other)
    /\ UNCHANGED <<conf, t, soc, call, post>>

Next == CallOther \/ Step \/ Return

Spec == Init /\ [][Next]_vars

----------------------------------------------------------------------------
\* Properties of the runs.

Positive(x) == RLt(Zero, x)

NonNeg(x) == RLe(Zero, x)

InWin(x, win) == RLe(win[1], x) /\ RLe(x, win[2])

InUnit(x) == RLe(Zero, x) /\ RLe(x, One)

RowIndex(s) == 1..Len(out[s])

\* the row written by the last pass of the loop
LastRow(s) == out[s][t]

powers(r) == <<r.pch, r.pdis, r.pimp, r.pexp>>

Unclamped(soc0, r, params) ==
    RAdd(soc0, RDiv(RMul(RSub(RMul(r.pch, params.eta_ch),
                              RDiv(r.pdis, params.eta_dis)), params.dt_h),
                    params.e_nom_kwh))

Balanced(r) ==
    RAdd(RAdd(r.pv_kw_eff, r.pdis), r.pimp) = RAdd(RAdd(r.load_kw, r.pch), r.pexp)

AllNonNeg(g) == NonNeg(g.pch) /\ NonNeg(g.pdis) /\ NonNeg(g.pimp) /\ NonNeg(g.pexp)

\* C4: greedy_heuristic_step returns four values >= 0 whenever PV >= 0,
\* load >= 0 and the current SoC is in [0, 1].
C4_OptimizerNonNegative ==
    t >= 1 =>
        \A s \in Scenarios :
            (NonNeg(call[s].pv_kw) /\ NonNeg(call[s].load_kw) /\ InUnit(call[s].soc))
                => AllNonNeg(call[s].ret)

equivalent_full_cycles(s) ==
    kpi_lifecycle(out[s], SystemParams(conf).dt_h, conf.e_nom_kwh)

PvSurplus(pv_eff, load_kw) == RMax(Zero, RSub(pv_eff, load_kw))

\* the optimizer's export exceeded the PV surplus in the last pass
CapActed(s) == RLt(PvSurplus(call[s].pv_kw, call[s].load_kw), call[s].ret.pexp)

CappedTo(r, g, surplus) ==
    /\ r.pexp = surplus
    /\ r.pdis = RMax(Zero, RSub(g.pdis, RSub(g.pexp, surplus)))

SocBefore(s, i) == IF i = 1 THEN initial_soc(conf) ELSE post[s][i - 1]

ZeroPvDispatch(c, s, k) ==
    export_cap(greedy_heuristic_step(Zero, k.load_kw, k.price_imp, Zero, k.soc,
                                     _ParamView(c, s)),
               Zero, k.load_kw)

MorningRow(r) == r.has_hour /\ 0 <= r.hour /\ r.hour <= 6

C12_UnknownScenarioFailsBeforeLoop ==
    /\ other.scenario \notin Scenarios
    /\ other.pc \in {"call", "KeyError"}
    /\ other.out = <<>>
    /\ other.pc = "KeyError" => other.soc = initial_soc(conf)

\* The call with the unknown name has raised and the three runs have gone on.
C12_Witness ==
    /\ other.pc = "KeyError"
    /\ other.soc = initial_soc(conf)
    /\ t >= 1

\* Rows a and b cannot follow one another in a strictly increasing index
\* without gaps: with steps of at most an hour the hour of the timestamp stays
\* or moves on by one.
HourJump(a, b) ==
    /\ a.has_hour /\ b.has_hour
    /\ b.hour \notin {a.hour, (a.hour + 1) % 24}

RegularIndex(df) == \A i \in 1..(Len(df) - 1) : ~HourJump(df[i], df[i + 1])

HeadroomKw(k, p) == RDiv(RMul(RSub(p.soc_max, k.soc), p.e_nom_kwh), p.dt_h)

\* a call with PV >= load and the SoC at or below the maximum
SurplusCall(k, p) == RLe(k.load_kw, k.pv_kw) /\ RLe(k.soc, p.soc_max)

SurplusRule(ret, net, p_ch_max, headroom_kw) ==
    /\ ret.pch  = RMin(net, RMin(p_ch_max, headroom_kw))
    /\ ret.pexp = RSub(net, ret.pch)
    /\ ret.pdis = Zero
    /\ ret.pimp = Zero
    /\ Positive(ret.pexp) => RLt(RMin(p_ch_max, headroom_kw), net)

\* C15: for every call of greedy_heuristic_step with PV >= load and
\* SoC <= soc_max, charge = min(PV - load, p_ch_max, (soc_max - SoC) * capacity
\* / dt), export = (PV - load) - charge, discharge = import = 0, and the export
\* is positive only when the surplus exceeds min(p_ch_max, headroom / dt).
C15_SurplusChargeThenExport ==
    (pc = "loop" /\ t >= 1) =>
        \A s \in Scenarios :
            SurplusCall(call[s], _ParamView(conf, s)) =>
                SurplusRule(call[s].ret, RSub(call[s].pv_kw, call[s].load_kw),
                            _ParamView(conf, s).p_ch_max,
                            HeadroomKw(call[s], _ParamView(conf, s)))

\* A surplus call in which the headroom limits the charge and the rest is
\* exported.
C15_Witness ==
    /\ pc = "loop" /\ t >= 1
    /\ \E s \in Scenarios :
         /\ SurplusCall(call[s], _ParamView(conf, s))
         /\ RLt(HeadroomKw(call[s], _ParamView(conf, s)), _ParamView(conf, s).p_ch_max)
         /\ Positive(call[s].ret.pch)
         /\ Positive(call[s].ret.pexp)

\* a call with PV < load
DeficitCall(k) == RLt(k.pv_kw, k.load_kw)

\* the discharge power the stored energy above p.soc_min and p_dis_max allow
MaxDisKw(k, p) ==
    RMin(p.p_dis_max,
         RDiv(RMax(Zero, RMul(RSub(k.soc, p.soc_min), p.e_nom_kwh)), p.dt_h))

DischargeTaken(ret, deficit, max_dis_kw) ==
    /\ ret.pdis = RMin(max_dis_kw, deficit)
    /\ ret.pimp = RMax(Zero, RSub(deficit, ret.pdis))

DischargeSkipped(ret, deficit) == ret.pdis = Zero /\ ret.pimp = deficit

\* the import price the controller hands to the optimizer for row r
NudgedPrice(s, r) ==
    RAdd(r.price_import_gbp_per_kwh, RMul(_lambda_batt(conf, s), batt_deg_pen(conf)))

====
